---------------------------- MODULE Spec2Model ----------------------------
(***************************************************************************)
(* A model of replay_identification: ReplayDetector.fit / .predict         *)
(* (decoders.py), lfp_likelihood (lfp_likelihood.py) and the marked        *)
(* point-process likelihood (multiunit_likelihood.py).                     *)
(*                                                                         *)
(* Numbers.  numpy floats are modelled by exact rationals <<n, d>> in      *)
(* lowest terms with d > 0, and NaN by <<0, 0>>.  Logarithms and           *)
(* exponentials are taken to base 2 and only of powers of two, so that     *)
(* every value stays rational: the identities the code relies on           *)
(* (log 1 = 0, log(xy) = log x + log y, exp(log x) = x) hold in any base.  *)
(*                                                                         *)
(* Positions.  Place bin b (1..NBins) covers the positions 2b-2 and 2b-1   *)
(* and has its center at 2b-1.                                             *)
(*                                                                         *)
(* The module .core (_filter, _smoother, replace_NaN, get_grid,            *)
(* get_observed_position_bin, return_None) and the speed, spiking and      *)
(* transition modules are imported by decoders.py but are not among the    *)
(* source files; they are modelled from the design document and marked so  *)
(* in the comments below.                                                  *)
(***************************************************************************)
EXTENDS Integers, Sequences, FiniteSets, TLC

VARIABLES
    fitted,                       \* fit has returned at least once
    is_track_interior_,           \* <<>> while the attribute is unset
    _lfp_likelihood,              \* "lfp_likelihood" or "return_None"
    _spiking_likelihood,          \* "spiking_likelihood" or "return_None"
    _multiunit_likelihood,        \* "multiunit_likelihood" or "return_None"
    movement_state_transition_,   \* NBins x NBins matrix
    replay_state_transition_,     \* name of the fitted replay transition
    result,                       \* outcome of the latest predict call
    lfp_call,                     \* latest direct call of lfp_likelihood
    mark_call,                    \* latest direct call of the mark likelihood
    fit_is_track_interior,        \* is_track_interior as the latest fit got it
    as_fitted,                    \* the fitted state as the latest fit left it
    fit_call                      \* latest construction and fit of a new detector

vars == <<fitted, is_track_interior_, _lfp_likelihood, _spiking_likelihood,
          _multiunit_likelihood, movement_state_transition_,
          replay_state_transition_, result, lfp_call, mark_call,
          fit_is_track_interior, as_fitted, fit_call>>

detector == <<fitted, is_track_interior_, _lfp_likelihood,
              _spiking_likelihood, _multiunit_likelihood,
              movement_state_transition_, replay_state_transition_>>

\* ------------------------------------------------------------------ bounds

MaxTime == 2

NBins == 2

Bins == 1..NBins

States == {0, 1}

\* ----------------------------------------------------------------- numbers

NaN == <<0, 0>>

IsNaN(x) == x[2] = 0

Abs(n) == IF n < 0 THEN -n ELSE n

RECURSIVE GCD(_, _)
GCD(a, b) == IF b = 0 THEN a ELSE GCD(b, a % b)

Rat(n, d) ==
    LET g == GCD(Abs(n), Abs(d))
        s == IF d < 0 THEN -1 ELSE 1
    IN  <<(s * n) \div g, (s * d) \div g>>

Zero == <<0, 1>>

One == <<1, 1>>

\* Sums and products cancel common factors before multiplying, so that the
\* intermediate integers stay small.
Add(x, y) ==
    IF IsNaN(x) \/ IsNaN(y) THEN NaN
    ELSE IF x[1] = 0 THEN y
    ELSE IF y[1] = 0 THEN x
    ELSE LET g == GCD(x[2], y[2])
         IN  Rat(x[1] * (y[2] \div g) + y[1] * (x[2] \div g),
                 (x[2] \div g) * y[2])

Neg(x) == IF IsNaN(x) THEN NaN ELSE <<-x[1], x[2]>>

Sub(x, y) == Add(x, Neg(y))

Mul(x, y) ==
    IF IsNaN(x) \/ IsNaN(y) THEN NaN
    ELSE IF x[1] = 0 \/ y[1] = 0 THEN <<0, 1>>
    ELSE IF x = <<1, 1>> THEN y
    ELSE IF y = <<1, 1>> THEN x
    ELSE LET g1 == GCD(Abs(x[1]), y[2])
             g2 == GCD(Abs(y[1]), x[2])
         IN  <<(x[1] \div g1) * (y[1] \div g2),
               (x[2] \div g2) * (y[2] \div g1)>>

\* x / y as numpy divides floats; the model only divides nonnegative values
\* by their own sum, so the one division by zero that occurs is 0 / 0 = NaN.
Div(x, y) ==
    IF IsNaN(x) \/ IsNaN(y) \/ y[1] = 0 THEN NaN
    ELSE IF y[1] < 0 THEN Mul(x, <<-y[2], -y[1]>>)
    ELSE Mul(x, <<y[2], y[1]>>)

Leq(x, y) == ~IsNaN(x) /\ ~IsNaN(y) /\ x[1] * y[2] <= y[1] * x[2]

RECURSIVE Pow2(_)
Pow2(k) == IF k = 0 THEN 1 ELSE 2 * Pow2(k - 1)

\* np.exp of an integer-valued number (base 2, see the header).  A float64
\* exponential underflows to 0.0 for arguments below the smallest subnormal.
Exp(x) ==
    IF IsNaN(x) THEN NaN
    ELSE IF x[1] < -1074 THEN <<0, 1>>
    ELSE IF x[1] >= 0 THEN <<Pow2(x[1]), 1>> ELSE <<1, Pow2(-x[1])>>

\* np.log of a power of two (base 2, see the header)
Log(x) ==
    IF IsNaN(x) THEN NaN
    ELSE IF x[2] = 1 THEN <<CHOOSE k \in 0..8 : Pow2(k) = x[1], 1>>
    ELSE <<-(CHOOSE k \in 0..8 : Pow2(k) = x[2]), 1>>

RECURSIVE SumSeq(_)
SumSeq(s) == IF s = <<>> THEN Zero ELSE Add(Head(s), SumSeq(Tail(s)))

\* np.sum of a (2, width) slice over both axes
SumSlice(sl) == Add(SumSeq(sl[0]), SumSeq(sl[1]))

\* ------------------------------------------------------------------ arrays
\* An (n_time, 2, width) array is a sequence over time of slices; a slice maps
\* each state to a sequence of `width` numbers (width is 1 or NBins).

Width(sl) == Len(sl[0])

\* np.ones((n_time, 2, 1))
Ones(n) == [t \in 1..n |-> [s \in States |-> <<One>>]]

\* a * b for two slices, numpy broadcasting a width of 1 over the position axis
MulSlice(a, b) ==
    LET w == IF Width(a) >= Width(b) THEN Width(a) ELSE Width(b)
    IN  [s \in States |->
            [i \in 1..w |->
                Mul(a[s][IF Width(a) = 1 THEN 1 ELSE i],
                    b[s][IF Width(b) = 1 THEN 1 ELSE i])]]

MulArray(A, B) == [t \in 1..Len(A) |-> MulSlice(A[t], B[t])]

\* core.replace_NaN (modelled from the design document, section 4.4: a NaN
\* entry becomes the neutral value 1)
replace_NaN(A) ==
    [t \in 1..Len(A) |->
        [s \in States |->
            [i \in 1..Len(A[t][s]) |->
                IF IsNaN(A[t][s][i]) THEN One ELSE A[t][s][i]]]]

\* likelihood[:, :, ~is_track_interior] = 0.0
MaskInterior(A, interior) ==
    [t \in 1..Len(A) |->
        [s \in States |->
            [i \in 1..Len(A[t][s]) |->
                IF ~interior[i] THEN Zero ELSE A[t][s][i]]]]

HasNaN(A) ==
    \E t \in 1..Len(A) : \E s \in States : \E i \in 1..Len(A[t][s]) :
        IsNaN(A[t][s][i])

\* ---------------------------------------------------------------- the grid
\* core.get_grid and core.get_observed_position_bin (modelled from the design
\* document, section 4.1): bin b covers [2b - 2, 2b) and is centered at 2b - 1.

place_bin_centers_ == [b \in Bins |-> 2 * b - 1]

get_observed_position_bin(position) ==
    [t \in 1..Len(position) |-> (position[t] \div 2) + 1]

\* statsmodels lagmat(speed, maxlag=1): the series delayed by one step, 0 first
lagmat(speed) ==
    [t \in 1..Len(speed) |-> IF t = 1 THEN 0 ELSE speed[t - 1]]

\* ----------------------------------------------------------- LFP likelihood
\* The fitted density models are external (scikit-learn mixtures); their
\* score_samples is a fixed table of log densities of a row of log powers.
\* A log power of 2 or more on any channel is far outside the training data:
\* its log density is so low that np.exp underflows to 0.

RECURSIVE SumInts(_)
SumInts(s) == IF s = <<>> THEN 0 ELSE Head(s)[1] + SumInts(Tail(s))

score_samples_lfp(model, row) ==
    IF \E c \in 1..Len(row) : row[c][1] >= 2 THEN <<-2000, 1>>
    ELSE IF model = "no_replay_model" THEN <<-SumInts(row), 1>>
    ELSE <<SumInts(row) - 1, 1>>

\* Mutant of lfp_likelihood: a row counts as observed when any channel is.
lfp_likelihood_any_channel(ripple_band_power) ==
    LET not_nan == [t \in 1..Len(ripple_band_power) |->
                      \E c \in 1..Len(ripple_band_power[t]) :
                          ~IsNaN(ripple_band_power[t][c])]
        logrow(t) == [c \in 1..Len(ripple_band_power[t]) |->
                         IF IsNaN(ripple_band_power[t][c]) THEN Zero
                         ELSE Log(ripple_band_power[t][c])]
    IN  [t \in 1..Len(ripple_band_power) |->
            [s \in States |->
                IF not_nan[t]
                THEN <<Exp(score_samples_lfp(
                           IF s = 0 THEN "no_replay_model" ELSE "replay_model",
                           logrow(t)))>>
                ELSE <<One>>]]

\* lfp_likelihood.lfp_likelihood
lfp_likelihood(ripple_band_power) ==
    LET not_nan == [t \in 1..Len(ripple_band_power) |->
                      \A c \in 1..Len(ripple_band_power[t]) :
                          ~IsNaN(ripple_band_power[t][c])]
        logrow(t) == [c \in 1..Len(ripple_band_power[t]) |->
                         Log(ripple_band_power[t][c])]
    IN  [t \in 1..Len(ripple_band_power) |->
            [s \in States |->
                IF not_nan[t]
                THEN <<Exp(score_samples_lfp(
                           IF s = 0 THEN "no_replay_model" ELSE "replay_model",
                           logrow(t)))>>
                ELSE <<One>>]]

\* ----------------------------------------------- speed and spiking likelihood
\* speed_likelhood and spiking_likelihood (modelled from the design document,
\* section 4.4).  Speed: the density of the observed speed under each state,
\* not position-resolved.  Spiking: a Poisson likelihood of one neuron whose
\* place field has rate 2^(b % 2) in bin b; the replay state is evaluated at
\* every bin, the no-replay state at the observed bin; a NaN spike indicator
\* yields NaN.

speed_likelihood(speed) ==
    [t \in 1..Len(speed) |->
        [s \in States |->
            IF s = 0 THEN <<(<<1, 2>>)>>
            ELSE IF speed[t] > 4 THEN <<(<<1, 4>>)>> ELSE <<One>>]]

place_field_log_rate(b) == b % 2

poisson_log_likelihood(is_spike, b) ==
    IF IsNaN(is_spike) THEN NaN
    ELSE <<is_spike[1] * place_field_log_rate(b)
             - Pow2(place_field_log_rate(b)), 1>>

spiking_likelihood(is_spike, position) ==
    LET bin == get_observed_position_bin(position)
    IN  [t \in 1..Len(is_spike) |->
            [s \in States |->
                [b \in Bins |->
                    Exp(poisson_log_likelihood(
                            is_spike[t], IF s = 1 THEN b ELSE bin[t]))]]]

\* ------------------------------------------------------ multiunit likelihood
\* The fitted occupancy, marginal and joint density models are external
\* (scikit-learn estimators); their score_samples are fixed tables of log
\* densities.  A position is an integer, a mark vector a sequence of numbers.

mean_rates(e) == <<1, 2>>

score_samples_occupancy(pos) == <<-1 - ((pos \div 2) % 2), 1>>

score_samples_marginal(e, pos) == <<(pos + e) % 2, 1>>

score_samples_joint(e, marks, pos) == <<((pos \div 2) % 2) - SumInts(marks), 1>>

\* np.moveaxis(multiunit, -1, 0): (n_time, n_electrodes) -> (n_electrodes, n_time)
moveaxis(multiunit) ==
    [e \in 1..Len(multiunit[1]) |->
        [t \in 1..Len(multiunit) |-> multiunit[t][e]]]

\* Mutant of poisson_mark_log_likelihood: the mark intensity is dropped.
poisson_mark_log_likelihood_no_mark(log_joint_mark_intensity, ground_process_intensity, time_bin_size) ==
    Sub(Log(time_bin_size), Mul(ground_process_intensity, time_bin_size))

\* multiunit_likelihood.poisson_mark_log_likelihood, for one array element
poisson_mark_log_likelihood(log_joint_mark_intensity, ground_process_intensity, time_bin_size) ==
    Sub(Add(Log(time_bin_size), log_joint_mark_intensity),
        Mul(ground_process_intensity, time_bin_size))

\* multiunit_likelihood.estimate_occupancy (the positions given are never NaN)
estimate_occupancy(position) ==
    [i \in 1..Len(position) |-> Exp(score_samples_occupancy(position[i]))]

\* multiunit_likelihood.estimate_ground_process_intensity
estimate_ground_process_intensity(position, occupancy, e) ==
    [i \in 1..Len(position) |->
        Exp(Sub(Add(Log(mean_rates(e)), score_samples_marginal(e, position[i])),
                Log(occupancy[i])))]

RECURSIVE SelectColumns(_, _, _)
SelectColumns(row, keep, j) ==
    IF j > Len(row) THEN <<>>
    ELSE (IF j \in keep THEN <<row[j]>> ELSE <<>>)
             \o SelectColumns(row, keep, j + 1)

\* is_spike in estimate_log_joint_mark_intensity: np.any(~np.isnan(multiunit),
\* axis=1)
is_spike(multiunit) ==
    [t \in 1..Len(multiunit) |->
        \E j \in 1..Len(multiunit[t]) : ~IsNaN(multiunit[t][j])]

\* not_nan_marks: np.any(~np.isnan(multiunit), axis=0), as the set of columns
not_nan_marks(multiunit) ==
    {j \in 1..Len(multiunit[1]) :
        \E t \in 1..Len(multiunit) : ~IsNaN(multiunit[t][j])}

\* multiunit_likelihood.estimate_log_joint_mark_intensity.  The result is <<>>
\* when the call raises: score_samples is handed the rows with a spike, and an
\* external density model may reject an empty batch (accepts_empty = FALSE).
estimate_log_joint_mark_intensity(multiunit, position, e, occupancy, accepts_empty) ==
    IF (\A t \in 1..Len(multiunit) : ~is_spike(multiunit)[t]) /\ ~accepts_empty
    THEN <<>>
    ELSE [t \in 1..Len(multiunit) |->
             IF is_spike(multiunit)[t]
             THEN Sub(Add(Log(mean_rates(e)),
                          score_samples_joint(
                              e, SelectColumns(multiunit[t],
                                               not_nan_marks(multiunit), 1),
                              position[t])),
                      Log(occupancy[t]))
             ELSE Zero]

\* The body of the comprehension in estimate_replay_log_likelihood for one
\* electrode, given the per-bin columns of estimate_log_joint_mark_intensity:
\* (n_time, n_bins), or <<>> when a column raised.
replay_poisson_term(n_time, columns, ground_process_intensity, time_bin_size) ==
    IF \E b \in Bins : columns[b] = <<>> THEN <<>>
    ELSE [t \in 1..n_time |->
             [b \in Bins |->
                 poisson_mark_log_likelihood(
                     columns[b][t], ground_process_intensity[b],
                     time_bin_size)]]

\* One electrode's addend in estimate_replay_log_likelihood, given the
\* occupancy of the place bin centers.
replay_electrode_term(multiunit, e, time_bin_size, occupancy, accepts_empty) ==
    replay_poisson_term(
        Len(multiunit),
        [b \in Bins |->
            estimate_log_joint_mark_intensity(
                multiunit, [t \in 1..Len(multiunit) |-> place_bin_centers_[b]],
                e, [t \in 1..Len(multiunit) |-> occupancy[b]], accepts_empty)],
        estimate_ground_process_intensity(place_bin_centers_, occupancy, e),
        time_bin_size)

\* The body of the comprehension in estimate_no_replay_log_likelihood for one
\* electrode: (n_time,), or <<>> when the mark intensity raised.
no_replay_poisson_term(log_joint_mark_intensity, ground_process_intensity, time_bin_size) ==
    IF log_joint_mark_intensity = <<>> THEN <<>>
    ELSE [t \in 1..Len(log_joint_mark_intensity) |->
             poisson_mark_log_likelihood(
                 log_joint_mark_intensity[t], ground_process_intensity[t],
                 time_bin_size)]

\* One electrode's addend in estimate_no_replay_log_likelihood, given the
\* occupancy of the observed positions.
no_replay_electrode_term(multiunit, position, e, time_bin_size, occupancy, accepts_empty) ==
    no_replay_poisson_term(
        estimate_log_joint_mark_intensity(
            multiunit, position, e, occupancy, accepts_empty),
        estimate_ground_process_intensity(position, occupancy, e),
        time_bin_size)

\* np.sum(..., axis=0) over the electrodes, one addend at a time; <<>> once an
\* addend raised
AddReplayTerm(rest, term) ==
    IF rest = <<>> \/ term = <<>> THEN <<>>
    ELSE [t \in 1..Len(term) |-> [b \in Bins |-> Add(rest[t][b], term[t][b])]]

AddNoReplayTerm(rest, term) ==
    IF rest = <<>> \/ term = <<>> THEN <<>>
    ELSE [t \in 1..Len(term) |-> Add(rest[t], term[t])]

\* multiunit_likelihood.estimate_replay_log_likelihood over the electrodes
\* 1..e; multiunits is (n_electrodes, n_time); <<>> when the evaluation raises
RECURSIVE estimate_replay_log_likelihood(_, _, _, _)
estimate_replay_log_likelihood(multiunits, e, time_bin_size, accepts_empty) ==
    IF e = 0
    THEN [t \in 1..Len(multiunits[1]) |-> [b \in Bins |-> Zero]]
    ELSE AddReplayTerm(
             estimate_replay_log_likelihood(
                 multiunits, e - 1, time_bin_size, accepts_empty),
             replay_electrode_term(
                 multiunits[e], e, time_bin_size,
                 estimate_occupancy(place_bin_centers_), accepts_empty))

\* multiunit_likelihood.estimate_no_replay_log_likelihood over the
\* electrodes 1..e
RECURSIVE estimate_no_replay_log_likelihood(_, _, _, _, _)
estimate_no_replay_log_likelihood(multiunits, e, position, time_bin_size, accepts_empty) ==
    IF e = 0
    THEN [t \in 1..Len(multiunits[1]) |-> Zero]
    ELSE AddNoReplayTerm(
             estimate_no_replay_log_likelihood(
                 multiunits, e - 1, position, time_bin_size, accepts_empty),
             no_replay_electrode_term(
                 multiunits[e], position, e, time_bin_size,
                 estimate_occupancy(position), accepts_empty))

\* Mutant of StackLikelihood: the two branches are stored in each other's slice.
StackLikelihood_swapped(no_replay, replay) ==
    IF replay = <<>> \/ no_replay = <<>> THEN <<>>
    ELSE [t \in 1..Len(replay) |->
             [s \in States |->
                 [b \in Bins |->
                     IF s = 0 THEN Exp(replay[t][b]) ELSE Exp(no_replay[t])]]]

\* np.exp(np.stack((no_replay * np.ones((1, n_bins)), replay), axis=1))
StackLikelihood(no_replay, replay) ==
    IF replay = <<>> \/ no_replay = <<>> THEN <<>>
    ELSE [t \in 1..Len(replay) |->
             [s \in States |->
                 [b \in Bins |->
                     IF s = 1 THEN Exp(replay[t][b]) ELSE Exp(no_replay[t])]]]

\* multiunit_likelihood.multiunit_likelihood: (n_time, 2, n_bins), or <<>>
\* when the evaluation raises
multiunit_likelihood(multiunit, position, time_bin_size, accepts_empty) ==
    StackLikelihood(
        estimate_no_replay_log_likelihood(
            moveaxis(multiunit), Len(multiunit[1]), position, time_bin_size,
            accepts_empty),
        estimate_replay_log_likelihood(
            moveaxis(multiunit), Len(multiunit[1]), time_bin_size,
            accepts_empty))

\* ------------------------------------------------------- transition models
\* movement_state_transition and replay_state_transition (modelled from the
\* design document, sections 4.2 and 4.3).  A fitted movement matrix is row
\* stochastic; which one fit obtains depends on the training data.  The fitted
\* replay transition maps the lagged speed to the probability of replay given
\* the previous replay state, <<p(1 | 0), p(1 | 1)>>.

IdentityMatrix == [p \in Bins |-> [q \in Bins |-> IF p = q THEN One ELSE Zero]]

UniformMatrix == [p \in Bins |-> [q \in Bins |-> <<1, NBins>>]]

MovementMatrices == {IdentityMatrix, UniformMatrix}

ReplayTransitionModels == {"identity", "speed_dependent"}

probability_replay(model, lagged_speed) ==
    IF model = "identity" THEN [r \in States |-> IF r = 1 THEN One ELSE Zero]
    ELSE IF lagged_speed > 4 THEN [r \in States |-> IF r = 1 THEN <<1, 2>> ELSE Zero]
    ELSE [r \in States |-> <<1, 2>>]

\* self.replay_state_transition_(lagged_speed): one row per time step
replay_state_transition(model, lagged_speed) ==
    [t \in 1..Len(lagged_speed) |-> probability_replay(model, lagged_speed[t])]

\* ----------------------------------------------------- filter and smoother
\* core._filter and core._smoother (modelled from the design document,
\* sections 4.6 and 4.7).  A posterior slice maps each state to a sequence
\* over the bins.

\* p(replay_t = r2, pos_t = p2 | replay_{t-1} = r, pos_{t-1} = p)
JointTransition(movement, rt, obs, r, p, r2, p2) ==
    Mul(IF r2 = 1 THEN rt[r] ELSE Sub(One, rt[r]),
        IF r2 = 1 THEN movement[p][p2]
        ELSE IF p2 = obs THEN One ELSE Zero)

\* the initial distribution: uniform over the joint state
UniformPrior == [s \in States |-> [b \in Bins |-> <<1, 2 * NBins>>]]

\* Mutant of PredictStep: every step starts again from the uniform distribution.
PredictStep_restart(previous, movement, rt, obs) == UniformPrior

\* step 1 (predict): the one-step-ahead distribution from the previous posterior
PredictStep(previous, movement, rt, obs) ==
    [r2 \in States |->
        [p2 \in Bins |->
            Add(SumSeq([p \in Bins |->
                    Mul(JointTransition(movement, rt, obs, 0, p, r2, p2),
                        previous[0][p])]),
                SumSeq([p \in Bins |->
                    Mul(JointTransition(movement, rt, obs, 1, p, r2, p2),
                        previous[1][p])]))]]

\* step 2 (update): prior times the fused likelihood at t, broadcast over bins
UpdateStep(prior, likelihood_t) ==
    [s \in States |->
        [b \in Bins |->
            Mul(prior[s][b],
                likelihood_t[s][IF Width(likelihood_t) = 1 THEN 1 ELSE b])]]

\* Mutant of ScaleSlice: each state's row is scaled by its own sum.
ScaleSlice_per_state(sl, norm) ==
    [s \in States |-> [b \in Bins |-> Div(sl[s][b], SumSeq(sl[s]))]]

ScaleSlice(sl, norm) == [s \in States |-> [b \in Bins |-> Div(sl[s][b], norm)]]

\* Mutant of Normalize: a zero sum is divided by like any other.
Normalize_unguarded(prior, unnormalized, norm) ==
    ScaleSlice(unnormalized, norm)

\* step 3 (normalize) by the sum `norm` of the unnormalized slice; a zero sum
\* is detected and the predictive distribution is kept (whether the caller
\* then goes on or sees an exception is decided in Predict)
Normalize(prior, unnormalized, norm) ==
    IF norm = Zero THEN prior ELSE ScaleSlice(unnormalized, norm)

\* what one time step of the filter leaves behind
FilterRecord(prior, unnormalized) ==
    [prior |-> prior,
     posterior |-> Normalize(prior, unnormalized, SumSlice(unnormalized)),
     zero_sum |-> (SumSlice(unnormalized) = Zero)]

\* steps 2 and 3 at one time index
FilterUpdate(prior, likelihood_t) ==
    FilterRecord(prior, UpdateStep(prior, likelihood_t))

\* steps 1 to 3 at one time index
FilterStep(previous, likelihood_t, movement, rt, obs) ==
    FilterUpdate(PredictStep(previous, movement, rt, obs), likelihood_t)

\* the posterior the next step starts from
Previous(steps) ==
    IF steps = <<>> THEN UniformPrior ELSE steps[Len(steps)].posterior

\* the forward pass, from the steps done so far to the last time index
RECURSIVE FilterFrom(_, _, _, _, _)
FilterFrom(steps, likelihood, movement, rts, obs) ==
    IF Len(steps) = Len(likelihood) THEN steps
    ELSE FilterFrom(
             Append(steps,
                    FilterStep(Previous(steps), likelihood[Len(steps) + 1],
                               movement, rts[Len(steps) + 1],
                               obs[Len(steps) + 1])),
             likelihood, movement, rts, obs)

Marginal(posterior) ==
    [t \in 1..Len(posterior) |->
        [s \in States |-> SumSeq(posterior[t][s])]]

\* what _filter returns, from the steps of the forward pass
FilterResults(steps) ==
    [posterior |-> [t \in 1..Len(steps) |-> steps[t].posterior],
     prior |-> [t \in 1..Len(steps) |-> steps[t].prior],
     state_probability |->
         Marginal([t \in 1..Len(steps) |-> steps[t].posterior]),
     zero_sum |-> \E t \in 1..Len(steps) : steps[t].zero_sum]

\* core._filter: posterior, state_probability, and the priors it went through
_filter(likelihood, movement, rts, obs) ==
    FilterResults(FilterFrom(<<>>, likelihood, movement, rts, obs))

\* smoothed / predictive at t + 1, 0 where the predictive mass is 0
SmoothRatio(smoothed_next, prior_next) ==
    [s \in DOMAIN prior_next |->
        [b \in DOMAIN prior_next[s] |->
            IF prior_next[s][b] = Zero THEN Zero
            ELSE Div(smoothed_next[s][b], prior_next[s][b])]]

\* the weight of the joint state (r, p) at t: the ratio at t + 1 carried back
\* through the transition
SmoothWeight(ratio, movement, rt_next, obs_next, r, p) ==
    Add(SumSeq([p2 \in Bins |->
            Mul(JointTransition(movement, rt_next, obs_next, r, p, 0, p2),
                ratio[0][p2])]),
        SumSeq([p2 \in Bins |->
            Mul(JointTransition(movement, rt_next, obs_next, r, p, 1, p2),
                ratio[1][p2])]))

SmoothSlice(filtered_t, ratio, movement, rt_next, obs_next) ==
    [r \in DOMAIN ratio |->
        [p \in DOMAIN ratio[r] |->
            Mul(filtered_t[r][p],
                SmoothWeight(ratio, movement, rt_next, obs_next, r, p))]]

\* the backward correction of the filtered slice at t from the smoothed slice
\* at t + 1 and the predictive distribution of t + 1
SmoothStep(filtered_t, smoothed_next, movement, rt_next, obs_next) ==
    SmoothSlice(filtered_t,
                SmoothRatio(smoothed_next,
                            PredictStep(filtered_t, movement, rt_next, obs_next)),
                movement, rt_next, obs_next)

\* the backward pass: `smoothed` holds the slices of the last Len(smoothed)
\* time indices
RECURSIVE SmoothFrom(_, _, _, _, _)
SmoothFrom(smoothed, filtered, movement, rts, obs) ==
    IF Len(smoothed) = Len(filtered) THEN smoothed
    ELSE SmoothFrom(
             <<SmoothStep(filtered[Len(filtered) - Len(smoothed)], smoothed[1],
                          movement, rts[Len(filtered) - Len(smoothed) + 1],
                          obs[Len(filtered) - Len(smoothed) + 1])>> \o smoothed,
             filtered, movement, rts, obs)

SmootherResults(posterior) ==
    [posterior |-> posterior, state_probability |-> Marginal(posterior)]

\* core._smoother: posterior and state_probability; the pass starts from the
\* filtered slice at the last time index
_smoother(filtered, movement, rts, obs) ==
    SmootherResults(
        SmoothFrom(<<filtered[Len(filtered)]>>, filtered,
                   movement, rts, obs))

\* ------------------------------------------------------------------ inputs

NoEvent == <<NaN, NaN>>

\* What is recorded at one time step, as a tuple: speed, position, the band
\* power of two LFP channels, the spike indicator of one neuron, and the mark
\* vector of one electrode.
Observation(speed, position, lfp_power, spikes, marks) ==
    <<speed, position, lfp_power, spikes, <<marks>>>>

Observations ==
    {Observation(0, 2 * b - 2, <<One, One>>, Zero, NoEvent) : b \in Bins}
    \cup {Observation(5, 0, <<(<<2, 1>>), One>>, One, <<One, (<<2, 1>>)>>),
          Observation(0, 0, <<NaN, One>>, NaN, NoEvent),
          Observation(0, 0, <<(<<4, 1>>), One>>, Zero, NoEvent)}

Names == {"speed", "lfp_power", "spikes", "multiunit"}

Optional == {"lfp_power", "spikes", "multiunit"}

\* The arguments of one predict call; an input that is not supplied (None) is
\* <<>>.
Arguments(obs, supplied, use_likelihoods, use_smoother, accepts_empty) ==
    [n_time |-> Len(obs),
     speed |-> [t \in 1..Len(obs) |-> obs[t][1]],
     position |-> [t \in 1..Len(obs) |-> obs[t][2]],
     lfp_power |-> IF "lfp_power" \in supplied
                   THEN [t \in 1..Len(obs) |-> obs[t][3]] ELSE <<>>,
     spikes |-> IF "spikes" \in supplied
                THEN [t \in 1..Len(obs) |-> obs[t][4]] ELSE <<>>,
     multiunit |-> IF "multiunit" \in supplied
                   THEN [t \in 1..Len(obs) |-> obs[t][5]] ELSE <<>>,
     use_likelihoods |-> use_likelihoods,
     use_smoother |-> use_smoother,
     accepts_empty |-> accepts_empty]

\* --------------------------------------------------------- ReplayDetector

AllInterior == [b \in Bins |-> TRUE]

\* a caller's mask with the last bin off the track
CallerMask == [b \in Bins |-> b < NBins]

\* ReplayDetector.fit: is_track_interior is <<>> when omitted; the three
\* booleans say whether lfp_power, spikes and multiunit were given.  The
\* caller drops the outcome of a predict call before fitting again.
Fit(is_track_interior, lfp_power, spikes, multiunit, movement, replay) ==
    /\ result.status = "none"
    /\ fitted' = TRUE
    /\ is_track_interior_' =
           IF is_track_interior = <<>> THEN AllInterior ELSE is_track_interior_
    /\ _lfp_likelihood' = IF lfp_power THEN "lfp_likelihood" ELSE "return_None"
    /\ _spiking_likelihood' =
           IF spikes THEN "spiking_likelihood" ELSE "return_None"
    /\ _multiunit_likelihood' =
           IF multiunit THEN "multiunit_likelihood" ELSE "return_None"
    /\ movement_state_transition_' = movement
    /\ replay_state_transition_' = replay
    /\ fit_is_track_interior' = is_track_interior
    /\ as_fitted' = detector'
    /\ result' = [status |-> "none"]
    /\ UNCHANGED <<lfp_call, mark_call, fit_call>>

\* The dict order of `likelihoods` in predict.
LikelihoodOrder == <<"speed", "lfp_power", "spikes", "multiunit">>

\* Mutant of likelihood_func: a modality without input or without a fitted
\* model is treated as neutral.
likelihood_func_neutral(name, a) ==
    IF name = "speed" THEN speed_likelihood(a.speed)
    ELSE IF name = "lfp_power"
    THEN IF _lfp_likelihood = "return_None" \/ a.lfp_power = <<>>
         THEN Ones(a.n_time)
         ELSE lfp_likelihood(a.lfp_power)
    ELSE IF name = "spikes"
    THEN IF _spiking_likelihood = "return_None" \/ a.spikes = <<>>
         THEN Ones(a.n_time)
         ELSE spiking_likelihood(a.spikes, a.position)
    ELSE IF _multiunit_likelihood = "return_None" \/ a.multiunit = <<>>
         THEN Ones(a.n_time)
         ELSE multiunit_likelihood(a.multiunit, a.position, One, a.accepts_empty)

\* likelihood_func() for one modality: its array, or <<>> when the call (or
\* replace_NaN of its None result) raises.
likelihood_func(name, a) ==
    IF name = "speed" THEN speed_likelihood(a.speed)
    ELSE IF name = "lfp_power"
    THEN IF _lfp_likelihood = "return_None" \/ a.lfp_power = <<>> THEN <<>>
         ELSE lfp_likelihood(a.lfp_power)
    ELSE IF name = "spikes"
    THEN IF _spiking_likelihood = "return_None" \/ a.spikes = <<>> THEN <<>>
         ELSE spiking_likelihood(a.spikes, a.position)
    ELSE IF _multiunit_likelihood = "return_None" \/ a.multiunit = <<>> THEN <<>>
         ELSE multiunit_likelihood(a.multiunit, a.position, One, a.accepts_empty)

\* Mutant of FuseFactor: the modality's array is multiplied in as it is, NaN
\* entries included.
FuseFactor_keep_NaN(likelihood, name, factor) ==
    IF factor = <<>> THEN <<>>
    ELSE IF name \in {"spikes", "multiunit"}
    THEN IF is_track_interior_ = <<>> THEN <<>>
         ELSE MaskInterior(MulArray(likelihood, factor), is_track_interior_)
    ELSE MulArray(likelihood, factor)

\* One turn of the loop over `likelihoods` for a selected name, given what
\* likelihood_func() returned: multiply the NaN-replaced array in, then zero
\* the non-interior bins after spikes and multiunit.  <<>> when the turn raises.
FuseFactor(likelihood, name, factor) ==
    IF factor = <<>> THEN <<>>
    ELSE IF name \in {"spikes", "multiunit"}
    THEN IF is_track_interior_ = <<>> THEN <<>>
         ELSE MaskInterior(MulArray(likelihood, replace_NaN(factor)),
                           is_track_interior_)
    ELSE MulArray(likelihood, replace_NaN(factor))

\* The loop over `likelihoods` from its i-th entry on.
RECURSIVE FuseFrom(_, _, _)
FuseFrom(i, likelihood, a) ==
    IF i > Len(LikelihoodOrder) \/ likelihood = <<>> THEN likelihood
    ELSE IF LikelihoodOrder[i] \in a.use_likelihoods
    THEN FuseFrom(i + 1,
                  FuseFactor(likelihood, LikelihoodOrder[i],
                             likelihood_func(LikelihoodOrder[i], a)),
                  a)
    ELSE FuseFrom(i + 1, likelihood, a)

\* The fused likelihood of predict: <<>> when a selected modality raises.
FusedLikelihood(a) == FuseFrom(1, Ones(a.n_time), a)

\* Mutant of ObservedPositionBin: every time step is assigned the first bin.
ObservedPositionBin_first(a) == [t \in 1..a.n_time |-> 1]

\* get_observed_position_bin(position, self.place_bin_edges_) in predict
ObservedPositionBin(a) == get_observed_position_bin(a.position)

\* Mutant of SmootherInput: the smoother is handed the filter's priors.
SmootherInput_prior(f) == f.prior

\* The first argument of _smoother in predict: the filtered posterior.
SmootherInput(f) == f.posterior

\* Mutant of ReplayProbability: the no-replay column is selected.
ReplayProbability_column_0(state_probability) ==
    [t \in 1..Len(state_probability) |-> state_probability[t][0]]

\* state_probability[:, 1] in the returned dataset
ReplayProbability(state_probability) ==
    [t \in 1..Len(state_probability) |-> state_probability[t][1]]

\* The outcome of a predict call that raised.
Raised(a) == [status |-> "error", args |-> a]

\* The dataset predict returns, with what the filter went through; f is the
\* filter's output and s the smoother's (or f again).  zero_sum records that
\* the filter met a zero normalizing constant and kept the predictive
\* distribution.
Dataset(a, likelihood, rts, obs, f, s) ==
    [status |-> "ok", args |-> a,
     likelihood |-> likelihood,
     observed_position_bin |-> obs,
     replay_state_transition |-> rts,
     prior |-> f.prior,
     filtered |-> f.posterior,
     zero_sum |-> f.zero_sum,
     posterior |-> s.posterior,
     replay_probability |-> ReplayProbability(s.state_probability)]

\* `if use_smoother:` in predict
Smooth(a, rts, obs, f) ==
    IF a.use_smoother
    THEN _smoother(SmootherInput(f), movement_state_transition_, rts, obs)
    ELSE f

\* predict from the filter's output on
Decoded(a, likelihood, rts, obs, f) ==
    Dataset(a, likelihood, rts, obs, f, Smooth(a, rts, obs, f))

\* predict from the fused likelihood on.  likelihood.squeeze() also drops a
\* time axis of length 1, and the dataset cannot be built from it.
Decode(a, likelihood, rts, obs) ==
    IF likelihood = <<>> THEN Raised(a)
    ELSE IF a.n_time = 1 THEN Raised(a)
    ELSE Decoded(a, likelihood, rts, obs,
                 _filter(likelihood, movement_state_transition_, rts, obs))

\* ReplayDetector.predict, as the value it returns; status "error" when it
\* raises.
predict(a) ==
    Decode(a, FusedLikelihood(a),
           replay_state_transition(replay_state_transition_, lagmat(a.speed)),
           ObservedPositionBin(a))

\* What the caller may see of a call that evaluates to r: where the filter met
\* a zero normalizing constant it either keeps the predictive distribution or
\* raises (the design document allows both).
Outcomes(r) ==
    IF r.status = "ok" /\ r.zero_sum THEN {r, Raised(r.args)} ELSE {r}

\* Mutant of Predict: the call inverts the stored interior mask in place.
Predict_inverts_mask(obs, supplied, use_likelihoods, use_smoother, accepts_empty) ==
    /\ fitted
    /\ result.status = "none"
    /\ result' \in Outcomes(predict(Arguments(obs, supplied, use_likelihoods,
                                              use_smoother, accepts_empty)))
    /\ is_track_interior_' =
           [b \in DOMAIN is_track_interior_ |-> ~is_track_interior_[b]]
    /\ UNCHANGED <<fitted, _lfp_likelihood, _spiking_likelihood,
                   _multiunit_likelihood, movement_state_transition_,
                   replay_state_transition_, lfp_call, mark_call,
                   fit_is_track_interior, as_fitted, fit_call>>

\* A predict call on a fitted detector (on an unfitted one it raises at the
\* first fitted attribute and changes nothing).  The caller holds one outcome
\* at a time and drops it (Discard) before the next call.
Predict(obs, supplied, use_likelihoods, use_smoother, accepts_empty) ==
    /\ fitted
    /\ result.status = "none"
    /\ result' \in Outcomes(predict(Arguments(obs, supplied, use_likelihoods,
                                              use_smoother, accepts_empty)))
    /\ UNCHANGED <<detector, lfp_call, mark_call, fit_is_track_interior,
                 as_fitted, fit_call>>

\* The caller drops the outcome of the latest predict call.
Discard ==
    /\ result.status # "none"
    /\ result' = [status |-> "none"]
    /\ UNCHANGED <<detector, lfp_call, mark_call, fit_is_track_interior,
                 as_fitted, fit_call>>

\* ------------------------------------------------------------ specification

Init ==
    /\ fitted = FALSE
    /\ is_track_interior_ = <<>>
    /\ _lfp_likelihood = "unset"
    /\ _spiking_likelihood = "unset"
    /\ _multiunit_likelihood = "unset"
    /\ movement_state_transition_ = <<>>
    /\ replay_state_transition_ = "unset"
    /\ result = [status |-> "none"]
    /\ lfp_call = [status |-> "none"]
    /\ mark_call = [status |-> "none"]
    /\ fit_is_track_interior = <<>>
    /\ as_fitted = <<>>
    /\ fit_call = [status |-> "none"]

ObservationSequences == UNION {[1..n -> Observations] : n \in 1..MaxTime}

\* The use_likelihoods lists of the predict calls: every selection of the four
\* names, a differently capitalised name, and a name that is no modality.
Selections == SUBSET Names \cup {{"Spikes"}, {"speed", "position"}}

\* The fit calls, as <<is_track_interior, signals given, movement matrix,
\* replay transition model>>: every fitted transition pair with all signals and no mask;
\* one call with a caller's mask; one call without each optional signal.
FitCalls ==
    {<<(<<>>), Optional, m, r>> :
         m \in MovementMatrices, r \in ReplayTransitionModels}
    \cup {<<CallerMask, Optional, UniformMatrix, "speed_dependent">>}
    \cup {<<(<<>>), Optional \ {m}, UniformMatrix, "speed_dependent">> :
              m \in Optional}

Next ==
    \/ \E c \in FitCalls :
            Fit(c[1], "lfp_power" \in c[2], "spikes" \in c[2],
                "multiunit" \in c[2], c[3], c[4])
    \/ /\ fitted
       /\ result.status = "none"
       /\ \E obs \in ObservationSequences, use_likelihoods \in Selections,
             use_smoother \in BOOLEAN :
             \E supplied \in {Optional} \cup
                     {Optional \ {m} : m \in use_likelihoods \cap Optional},
                accepts_empty \in
                     IF "multiunit" \in use_likelihoods THEN BOOLEAN ELSE {TRUE} :
               Predict(obs, supplied, use_likelihoods, use_smoother,
                       accepts_empty)
    \/ Discard

Spec == Init /\ [][Next]_vars

\* ------------------------------------------- lfp_likelihood called directly

Powers == {NaN, One, <<2, 1>>, <<4, 1>>}

\* ripple band power: (n_time, n_signals) with two signals
PowerSequences == UNION {[1..n -> Powers \X Powers] : n \in 1..MaxTime}

LfpCall(ripple_band_power) ==
    /\ lfp_call.status = "none"
    /\ lfp_call' = [status |-> "done",
                    ripple_band_power |-> ripple_band_power,
                    likelihood |-> lfp_likelihood(ripple_band_power)]
    /\ UNCHANGED <<detector, result, mark_call, fit_is_track_interior,
                   as_fitted, fit_call>>

NextLfp == \E ripple_band_power \in PowerSequences : LfpCall(ripple_band_power)

SpecLfp == Init /\ [][NextLfp]_vars

\* ------------------------------------ the multiunit likelihood called directly

TimeBinSizes == {One, <<2, 1>>}

MarkVectors == {NoEvent, <<One, One>>, <<One, (<<2, 1>>)>>}

\* the numbers of electrodes a call is made with
ElectrodeCounts == {1, 2}

\* one time step of a call: the mark vector of each electrode and the position
MarkSteps(n_electrodes) ==
    [1..n_electrodes -> MarkVectors] \X {2 * b - 2 : b \in Bins}

MarkSequences(n_electrodes) ==
    UNION {[1..n -> MarkSteps(n_electrodes)] : n \in 1..MaxTime}

\* multiunit_likelihood on the multiunits of one or two electrodes, with the
\* two log likelihoods it exponentiates; <<>> for a result means the call
\* raised.
MarkCall(multiunit, position, time_bin_size, accepts_empty) ==
    /\ mark_call.status = "none"
    /\ mark_call' =
           [status |-> "done",
            multiunit |-> multiunit,
            position |-> position,
            time_bin_size |-> time_bin_size,
            accepts_empty |-> accepts_empty,
            replay |-> estimate_replay_log_likelihood(
                           moveaxis(multiunit), Len(multiunit[1]),
                           time_bin_size, accepts_empty),
            no_replay |-> estimate_no_replay_log_likelihood(
                              moveaxis(multiunit), Len(multiunit[1]), position,
                              time_bin_size, accepts_empty),
            likelihood |-> multiunit_likelihood(
                               multiunit, position, time_bin_size,
                               accepts_empty)]
    /\ UNCHANGED <<detector, result, lfp_call, fit_is_track_interior,
                 as_fitted, fit_call>>

NextMark ==
    \E n_electrodes \in ElectrodeCounts :
        \E steps \in MarkSequences(n_electrodes),
           time_bin_size \in TimeBinSizes, accepts_empty \in BOOLEAN :
            MarkCall([t \in 1..Len(steps) |-> steps[t][1]],
                     [t \in 1..Len(steps) |-> steps[t][2]],
                     time_bin_size, accepts_empty)

SpecMark == Init /\ [][NextMark]_vars

\* ------------------------------------ a new detector constructed and fitted
\* ReplayDetector.__init__ and the grid and movement part of fit, on a
\* detector of its own.  A sizing option that is None is 0.  get_grid and the
\* three movement policies (.core, .movement_state_transition) are modelled
\* from the design document, sections 4.1 and 4.2; the replay speed is 1.

SpeedThresholds == {4, 6}

PlaceBinSizes == {0, 2}

PlaceBinCounts == {0, 1, 2}

MovementTypes == {"empirical", "random_walk", "w_track_1D_random_walk"}

\* one training time point: speed and position
TrainingSteps == {3, 5} \X {0, 2, 3}

TrainingSequences == [1..2 -> TrainingSteps]

MinPosition(position) ==
    CHOOSE x \in {position[t] : t \in 1..Len(position)} :
        \A t \in 1..Len(position) : x <= position[t]

MaxPosition(position) ==
    CHOOSE x \in {position[t] : t \in 1..Len(position)} :
        \A t \in 1..Len(position) : x >= position[t]

\* the number of bins of width bin_size that cover the training extent
get_n_bins(position, bin_size) ==
    (MaxPosition(position) - MinPosition(position) + bin_size - 1) \div bin_size

\* get_grid(position, bin_size): the bin centers, n equal bins spanning the
\* training extent; <<>> when it raises (no bin width, or zero bins)
get_grid(position, bin_size) ==
    IF bin_size = 0 \/ MaxPosition(position) = MinPosition(position) THEN <<>>
    ELSE [i \in 1..get_n_bins(position, bin_size) |->
             Rat(2 * MinPosition(position) * get_n_bins(position, bin_size)
                     + (MaxPosition(position) - MinPosition(position))
                           * (2 * i - 1),
                 2 * get_n_bins(position, bin_size))]

\* Mutant of GridOf: the bin count takes the place of the bin width when set.
GridOf_by_count(position, place_bin_size, n_place_bins, default_bin_size) ==
    IF n_place_bins # 0
    THEN get_grid(position,
                  (MaxPosition(position) - MinPosition(position)
                       + n_place_bins - 1) \div n_place_bins)
    ELSE get_grid(position,
                  IF place_bin_size = 0 THEN default_bin_size
                  ELSE place_bin_size)

\* get_grid(position, bin_size=self.place_bin_size) in fit; n_place_bins is
\* not passed on.  default_bin_size is what get_grid takes for a bin size of
\* None: 0 when it raises, else the width it falls back to.
GridOf(position, place_bin_size, n_place_bins, default_bin_size) ==
    get_grid(position,
             IF place_bin_size = 0 THEN default_bin_size ELSE place_bin_size)

\* the bin of n equal bins over the training extent that holds position p
PositionBin(p, position, n) ==
    IF p = MaxPosition(position) THEN n
    ELSE ((p - MinPosition(position)) * n)
             \div (MaxPosition(position) - MinPosition(position)) + 1

\* is_training=speed > 4 in fit
IsTraining(speed) == [t \in 1..Len(speed) |-> speed[t] > 4]

\* the number of training pairs that go from bin i to bin j
PairCount(position, is_training, n, i, j) ==
    Cardinality({t \in 1..(Len(position) - 1) :
        /\ is_training[t]
        /\ is_training[t + 1]
        /\ PositionBin(position[t], position, n) = i
        /\ PositionBin(position[t + 1], position, n) = j})

\* a kernel with its rows renormalized; a row without mass stays in its bin
NormalizeRows(kernel) ==
    [i \in DOMAIN kernel |->
        [j \in DOMAIN kernel |->
            IF SumSeq(kernel[i]) = Zero
            THEN (IF i = j THEN One ELSE Zero)
            ELSE Div(kernel[i][j], SumSeq(kernel[i]))]]

\* empirical_movement(position, edges, is_training, replay_speed): the
\* histogram of the training pairs, rows renormalized
empirical_movement(position, n, is_training) ==
    NormalizeRows([i \in 1..n |->
        [j \in 1..n |-> <<PairCount(position, is_training, n, i, j), 1>>]])

\* random_walk(place_bin_centers, variance, is_track_interior, replay_speed):
\* a diffusion kernel that halves with every bin of distance, zero at the
\* destination bins that are not interior, rows renormalized
random_walk(n, is_track_interior) ==
    NormalizeRows([i \in 1..n |->
        [j \in 1..n |->
            IF is_track_interior[j]
            THEN <<1, Pow2(IF i < j THEN j - i ELSE i - j)>> ELSE Zero]])

\* w_track_1D_random_walk(position, edges, centers, track_labels, variance,
\* replay_speed): the diffusion kernel of a single track segment
w_track_1D_random_walk(n) ==
    random_walk(n, [j \in 1..n |-> TRUE])

\* the movement transition fit stores: <<>> when the grid raised, or when
\* random_walk is to be handed an interior mask the detector does not have
MovementOf(movement_state_transition_type, position, n, is_training, interior) ==
    IF n = 0 THEN <<>>
    ELSE IF movement_state_transition_type = "empirical"
    THEN empirical_movement(position, n, is_training)
    ELSE IF movement_state_transition_type = "random_walk"
    THEN IF interior = <<>> THEN <<>> ELSE random_walk(n, interior)
    ELSE w_track_1D_random_walk(n)

\* self.is_track_interior_ of a new detector after fit has built the grid
InteriorOf(n, is_track_interior) ==
    IF is_track_interior = <<>> THEN [b \in 1..n |-> TRUE] ELSE <<>>

\* what a new detector holds after __init__ and fit, given the grid
Fitted(speed_threshold, place_bin_size, n_place_bins, movement_state_transition_type, speed, position, is_track_interior, grid) ==
    [status |-> "done",
     speed_threshold |-> speed_threshold,
     place_bin_size |-> place_bin_size,
     n_place_bins |-> n_place_bins,
     movement_state_transition_type |-> movement_state_transition_type,
     speed |-> speed,
     position |-> position,
     is_track_interior |-> is_track_interior,
     warned |-> (n_place_bins # 0 /\ place_bin_size # 0),
     place_bin_centers_ |-> grid,
     is_track_interior_ |-> InteriorOf(Len(grid), is_track_interior),
     is_training |-> IsTraining(speed),
     movement_state_transition_ |->
         MovementOf(movement_state_transition_type, position, Len(grid),
                    IsTraining(speed),
                    InteriorOf(Len(grid), is_track_interior))]

\* a caller's mask for a grid of n bins: the last of several bins is off the
\* track
MaskFor(n) == [b \in 1..n |-> b < n \/ n = 1]

FitCall(speed_threshold, place_bin_size, n_place_bins, movement_state_transition_type, training, with_mask, default_bin_size) ==
    /\ fit_call.status = "none"
    /\ fit_call' =
           Fitted(speed_threshold, place_bin_size, n_place_bins,
                  movement_state_transition_type,
                  [t \in 1..Len(training) |-> training[t][1]],
                  [t \in 1..Len(training) |-> training[t][2]],
                  IF with_mask
                  THEN MaskFor(Len(GridOf([t \in 1..Len(training) |->
                                               training[t][2]],
                                          place_bin_size, n_place_bins,
                                          default_bin_size)))
                  ELSE <<>>,
                  GridOf([t \in 1..Len(training) |-> training[t][2]],
                         place_bin_size, n_place_bins, default_bin_size))
    /\ UNCHANGED <<detector, result, lfp_call, mark_call,
                   fit_is_track_interior, as_fitted>>

NextFit ==
    \E speed_threshold \in SpeedThresholds, place_bin_size \in PlaceBinSizes,
       n_place_bins \in PlaceBinCounts,
       movement_state_transition_type \in MovementTypes,
       training \in TrainingSequences, with_mask \in BOOLEAN :
        \E default_bin_size \in IF place_bin_size = 0 THEN {0, 2} ELSE {0} :
            FitCall(speed_threshold, place_bin_size, n_place_bins,
                    movement_state_transition_type, training, with_mask,
                    default_bin_size)

SpecFit == Init /\ [][NextFit]_vars

\* ------------------------------------ the scenario with identity transitions
\* A detector fitted to the identity movement matrix and the identity replay
\* transition, all bins interior, decoding five time steps.

ScenarioObservations ==
    {o \in Observations : ~IsNaN(o[3][1]) /\ o[3][1] # <<4, 1>>}

ScenarioSequences == [1..5 -> ScenarioObservations]

NextScenario ==
    \/ Fit(<<>>, TRUE, TRUE, TRUE, IdentityMatrix, "identity")
    \/ /\ fitted
       /\ result.status = "none"
       /\ \E obs \in ScenarioSequences, use_likelihoods \in SUBSET Names,
             use_smoother \in BOOLEAN :
               Predict(obs, Optional, use_likelihoods, use_smoother, TRUE)
    \/ Discard

SpecScenario == Init /\ [][NextScenario]_vars

\* ------------------------------------------------------------------ claims

\* the value of a slice at (s, b), a width of 1 broadcast over the bins
At(sl, s, b) == sl[s][IF Len(sl[s]) = 1 THEN 1 ELSE b]

SliceHasNaN(sl) == \E s \in States : \E i \in 1..Len(sl[s]) : IsNaN(sl[s][i])

\* C1: at every time step the posterior predict returns (filtered, or smoothed
\* when use_smoother is set) sums to 1 over the joint state.
C1_PosteriorSumsToOne ==
    result.status = "ok" =>
        \A t \in 1..Len(result.posterior) :
            /\ DOMAIN result.posterior[t] = States
            /\ \A s \in States : Len(result.posterior[t][s]) = NBins
            /\ SumSlice(result.posterior[t]) = One

\* a smoothed posterior over MaxTime steps decoded from all four modalities,
\* different from the filtered one
C1_Witness ==
    /\ result.status = "ok"
    /\ result.args.use_smoother
    /\ result.args.use_likelihoods = Names
    /\ Len(result.posterior) = MaxTime
    /\ result.posterior # result.filtered

\* C2: at every time step the no-replay branch of the prior and of the
\* filtered posterior is 0 at every bin other than the observed position bin
\* of that time step.
C2_NoReplayAtObservedBin ==
    result.status = "ok" =>
        \A t \in 1..Len(result.filtered) : \A b \in Bins :
            b # get_observed_position_bin(result.args.position)[t] =>
                /\ result.prior[t][0][b] = Zero
                /\ result.filtered[t][0][b] = Zero

\* the animal moves from one bin to another, the no-replay branch carries
\* mass at both steps, and the replay branch is spread over both bins
C2_Witness ==
    /\ result.status = "ok"
    /\ Len(result.filtered) = MaxTime
    /\ movement_state_transition_ = UniformMatrix
    /\ get_observed_position_bin(result.args.position)[1]
           # get_observed_position_bin(result.args.position)[MaxTime]
    /\ \A t \in 1..MaxTime :
           /\ SumSeq(result.filtered[t][0]) # Zero
           /\ \A b \in Bins : result.prior[t][1][b] # Zero

\* C3: the smoothed posterior at the last time index equals the filtered
\* posterior at the last time index.
C3_SmootherTerminal ==
    (result.status = "ok" /\ result.args.use_smoother) =>
        result.posterior[Len(result.posterior)]
            = result.filtered[Len(result.filtered)]

\* the backward pass changed an earlier time step
C3_Witness ==
    /\ result.status = "ok"
    /\ result.args.use_smoother
    /\ Len(result.posterior) = MaxTime
    /\ result.posterior[1] # result.filtered[1]
    /\ result.filtered[MaxTime] # result.prior[MaxTime]

\* the fused likelihood is 0 for every state and position at time t
ZeroLikelihoodAt(t) ==
    \A s \in States : \A i \in 1..Len(result.likelihood[t][s]) :
        result.likelihood[t][s][i] = Zero

C6_ReplayProbabilityIsMarginal ==
    result.status = "ok" =>
        /\ Len(result.replay_probability) = Len(result.posterior)
        /\ \A t \in 1..Len(result.posterior) :
               /\ result.replay_probability[t] = SumSeq(result.posterior[t][1])
               /\ Leq(Zero, result.replay_probability[t])
               /\ Leq(result.replay_probability[t], One)
               /\ Add(result.replay_probability[t],
                      SumSeq(result.posterior[t][0])) = One

\* a replay probability strictly between 0 and 1 and different from the
\* no-replay marginal
C6_Witness ==
    /\ result.status = "ok"
    /\ \E t \in 1..Len(result.posterior) :
           /\ result.replay_probability[t] # Zero
           /\ result.replay_probability[t] # One
           /\ result.replay_probability[t] # SumSeq(result.posterior[t][0])


\* the fused likelihood at t, broadcast over the bins and normalized to sum
\* to 1 over the joint state
NormalizedLikelihood(t) ==
    LET total == SumSeq([i \in 1..(2 * NBins) |->
                     At(result.likelihood[t], (i - 1) \div NBins,
                        ((i - 1) % NBins) + 1)])
    IN  [s \in States |->
            [b \in Bins |-> Div(At(result.likelihood[t], s, b), total)]]

Carried(t) ==
    LET previous == IF t = 1 THEN UniformPrior ELSE result.filtered[t - 1]
    IN  [s \in States |->
            [b \in Bins |->
                IF s = 1 THEN previous[1][b]
                ELSE IF b = result.observed_position_bin[t]
                THEN SumSeq(previous[0]) ELSE Zero]]

CarriedTimesLikelihood(t) ==
    [s \in States |->
        [b \in Bins |->
            Mul(Carried(t)[s][b], At(result.likelihood[t], s, b))]]

FitMask ==
    IF fit_is_track_interior = <<>> THEN AllInterior ELSE fit_is_track_interior

\* each modality's NaN-replaced array, all ones for one that is not selected
C7_Factors(a) ==
    <<IF "speed" \in a.use_likelihoods
          THEN replace_NaN(likelihood_func("speed", a)) ELSE Ones(a.n_time),
      IF "lfp_power" \in a.use_likelihoods
          THEN replace_NaN(likelihood_func("lfp_power", a)) ELSE Ones(a.n_time),
      IF "spikes" \in a.use_likelihoods
          THEN replace_NaN(likelihood_func("spikes", a)) ELSE Ones(a.n_time),
      IF "multiunit" \in a.use_likelihoods
          THEN replace_NaN(likelihood_func("multiunit", a)) ELSE Ones(a.n_time)>>

C7_Product(factors, t, s, b) ==
    Mul(Mul(At(factors[1][t], s, b), At(factors[2][t], s, b)),
        Mul(At(factors[3][t], s, b), At(factors[4][t], s, b)))

\* C7: the fused likelihood predict returns is the elementwise product of the
\* selected modalities' NaN-replaced arrays, starting from ones of width 1 and
\* broadcast over the bins, and it is 0 at every bin outside the track
\* interior the detector was fitted with whenever spikes or multiunit is
\* selected.
C7_FusedIsMaskedProduct ==
    result.status = "ok" =>
        \A t \in 1..result.args.n_time : \A s \in States :
            /\ Len(result.likelihood[t][s]) =
                   IF result.args.use_likelihoods
                          \cap {"spikes", "multiunit"} = {}
                   THEN 1 ELSE NBins
            /\ \A b \in Bins :
                   At(result.likelihood[t], s, b) =
                       IF /\ result.args.use_likelihoods
                                 \cap {"spikes", "multiunit"} # {}
                          /\ ~FitMask[b]
                       THEN Zero
                       ELSE C7_Product(C7_Factors(result.args), t, s, b)

\* ------------------------------------------------------------------ C8

C8_LfpMissing(a, t) ==
    /\ "lfp_power" \in a.use_likelihoods
    /\ \E c \in 1..Len(a.lfp_power[t]) : IsNaN(a.lfp_power[t][c])

C8_SpikeMissing(a, t) ==
    "spikes" \in a.use_likelihoods /\ IsNaN(a.spikes[t])

C8_MarksMissing(a, t) ==
    /\ "multiunit" \in a.use_likelihoods
    /\ \A e \in 1..Len(a.multiunit[t]) :
           \A j \in 1..Len(a.multiunit[t][e]) : IsNaN(a.multiunit[t][e][j])

\* the modality's factor at t is 1 for every state and bin
C8_Neutral(name, a, t) ==
    \A s \in States : \A b \in Bins :
        At(replace_NaN(likelihood_func(name, a))[t], s, b) = One

\* the fused likelihood of the arguments b agrees with the returned one at
\* every time index other than t
C8_SameExceptAt(fused, t) ==
    /\ Len(fused) = Len(result.likelihood)
    /\ \A t2 \in 1..Len(fused) : t2 # t => fused[t2] = result.likelihood[t2]

C8_SameElsewhere(b, t) == C8_SameExceptAt(FusedLikelihood(b), t)

\* with a non-NaN input of the modality at t, every other time index of the
\* fused likelihood stays as it is
C8_OthersUnaffected(name, a, t) ==
    IF name = "lfp_power"
    THEN \A v \in {<<One, One>>, <<(<<2, 1>>), One>>} :
             C8_SameElsewhere([a EXCEPT !.lfp_power[t] = v], t)
    ELSE IF name = "spikes"
    THEN \A v \in {Zero, One} :
             C8_SameElsewhere([a EXCEPT !.spikes[t] = v], t)
    ELSE \A v \in {<<One, One>>, <<One, (<<2, 1>>)>>} :
             C8_SameElsewhere(
                 [a EXCEPT !.multiunit[t] =
                      [e \in 1..Len(a.multiunit[t]) |-> v]], t)

\* the factor of the multiunit likelihood at a time step without an event on
\* any electrode: exp of minus the summed ground process intensities (the bin
\* duration predict uses is 1), at every bin for the replay state and at the
\* observed position for the no-replay state
RECURSIVE C8_SumIntensity(_, _, _)
C8_SumIntensity(position, i, e) ==
    IF e = 0 THEN Zero
    ELSE Add(C8_SumIntensity(position, i, e - 1),
             estimate_ground_process_intensity(
                 position, estimate_occupancy(position), e)[i])

C8_NoEventFactor(a, t) ==
    \A s \in States : \A b \in Bins :
        At(replace_NaN(likelihood_func("multiunit", a))[t], s, b) =
            IF s = 1
            THEN Exp(Neg(C8_SumIntensity(place_bin_centers_, b,
                                         Len(a.multiunit[t]))))
            ELSE Exp(Neg(C8_SumIntensity(a.position, t, Len(a.multiunit[t]))))

C9_Density(model, row) ==
    Exp(score_samples_lfp(model, [c \in 1..Len(row) |-> Log(row[c])]))

C10_NoEventContribution ==
    (mark_call.status = "done" /\ Len(mark_call.multiunit[1]) = 1) =>
        /\ mark_call.replay # <<>>
        /\ mark_call.no_replay # <<>>
        /\ \A t \in 1..Len(mark_call.multiunit) :
               (\A j \in 1..Len(mark_call.multiunit[t][1]) :
                    IsNaN(mark_call.multiunit[t][1][j])) =>
                   /\ \A b \in Bins :
                          mark_call.replay[t][b] =
                              Neg(Mul(estimate_ground_process_intensity(
                                          place_bin_centers_,
                                          estimate_occupancy(place_bin_centers_),
                                          1)[b],
                                      mark_call.time_bin_size))
                   /\ mark_call.no_replay[t] =
                          Neg(Mul(estimate_ground_process_intensity(
                                      mark_call.position,
                                      estimate_occupancy(mark_call.position),
                                      1)[t],
                                  mark_call.time_bin_size))


\* ------------------------------------------------------------- C11, C12

\* whether electrode e has an event (a mark that is not NaN) at time step t
C11_Event(t, e) ==
    \E j \in 1..Len(mark_call.multiunit[t][e]) :
        ~IsNaN(mark_call.multiunit[t][e][j])

\* mean_rate x marginal place density / occupancy
C11_GroundProcessIntensity(e, pos) ==
    Div(Mul(mean_rates(e), Exp(score_samples_marginal(e, pos))),
        Exp(score_samples_occupancy(pos)))

\* log(mean_rate) + log joint density - log(occupancy) at an event, else 0
C11_LogJointMarkIntensity(t, e, pos) ==
    IF C11_Event(t, e)
    THEN Sub(Add(Log(mean_rates(e)),
                 score_samples_joint(e, mark_call.multiunit[t][e], pos)),
             score_samples_occupancy(pos))
    ELSE Zero

C11_Term(t, e, pos) ==
    Sub(Add(Log(mark_call.time_bin_size), C11_LogJointMarkIntensity(t, e, pos)),
        Mul(C11_GroundProcessIntensity(e, pos), mark_call.time_bin_size))

\* the sum over the electrodes 1..e, starting from 0
RECURSIVE C11_Sum(_, _, _)
C11_Sum(t, e, pos) ==
    IF e = 0 THEN Zero ELSE Add(C11_Sum(t, e - 1, pos), C11_Term(t, e, pos))

\* the product over the electrodes 1..e of each electrode's likelihood
RECURSIVE C11_Product(_, _, _)
C11_Product(t, e, pos) ==
    IF e = 0 THEN One
    ELSE Mul(C11_Product(t, e - 1, pos), Exp(C11_Term(t, e, pos)))

\* C11: in a call that returns, the multiunit log likelihood at every time step
\* and position is the sum over the electrodes, from 0, of log(bin duration)
\* + log joint mark intensity - ground process intensity x bin duration, with
\* the log joint mark intensity log(mean rate) + log joint density -
\* log(occupancy) at an event and the ground process intensity mean rate x
\* marginal density / occupancy; the likelihood is the exponential of the sum,
\* the product of the electrodes' likelihoods.
C11_MultiunitLogLikelihoodIsSum ==
    (mark_call.status = "done" /\ mark_call.likelihood # <<>>) =>
        \A t \in 1..Len(mark_call.multiunit) :
            /\ mark_call.no_replay[t] =
                   C11_Sum(t, Len(mark_call.multiunit[t]), mark_call.position[t])
            /\ mark_call.likelihood[t][0][1] =
                   C11_Product(t, Len(mark_call.multiunit[t]),
                               mark_call.position[t])
            /\ \A b \in Bins :
                   /\ mark_call.replay[t][b] =
                          C11_Sum(t, Len(mark_call.multiunit[t]),
                                  place_bin_centers_[b])
                   /\ mark_call.likelihood[t][1][b] =
                          C11_Product(t, Len(mark_call.multiunit[t]),
                                      place_bin_centers_[b])

\* two electrodes and a bin duration of 2, a time step with an event on the
\* first electrode only
C11_Witness ==
    /\ mark_call.status = "done"
    /\ mark_call.likelihood # <<>>
    /\ mark_call.time_bin_size = <<2, 1>>
    /\ Len(mark_call.multiunit[1]) = 2
    /\ \E t \in 1..Len(mark_call.multiunit) :
           /\ C11_Event(t, 1)
           /\ ~C11_Event(t, 2)
           /\ C11_Term(t, 1, mark_call.position[t]) # Zero
           /\ C11_Term(t, 2, mark_call.position[t]) # Zero

\* the call's positions, all set to pos
C12_PositionsAt(pos) == [t \in 1..Len(mark_call.position) |-> pos]

\* the no-replay value at time step t of the same call made with every
\* position set to pos
C12_EvaluatedAt(t, pos) ==
    multiunit_likelihood(mark_call.multiunit, C12_PositionsAt(pos),
                         mark_call.time_bin_size, mark_call.accepts_empty)[t][0][1]

\* C12: multiunit_likelihood returns an (n_time, 2, n_bins) array; the replay
\* slice at time step t holds for each bin b the likelihood evaluated at the
\* center of bin b; the no-replay slice at t holds the likelihood evaluated at
\* the observed position of t, the same value at every bin.
C12_MultiunitLikelihoodShape ==
    (mark_call.status = "done" /\ mark_call.likelihood # <<>>) =>
        /\ Len(mark_call.likelihood) = Len(mark_call.multiunit)
        /\ \A t \in 1..Len(mark_call.likelihood) :
               /\ DOMAIN mark_call.likelihood[t] = States
               /\ \A s \in States : Len(mark_call.likelihood[t][s]) = NBins
               /\ \A b \in Bins :
                      /\ mark_call.likelihood[t][1][b] =
                             C12_EvaluatedAt(t, place_bin_centers_[b])
                      /\ mark_call.likelihood[t][0][b] =
                             C12_EvaluatedAt(t, mark_call.position[t])

\* MaxTime steps at two different positions, an event among them, and a replay
\* slice that differs between bins and from the no-replay slice
C12_Witness ==
    /\ mark_call.status = "done"
    /\ mark_call.likelihood # <<>>
    /\ Len(mark_call.likelihood) = MaxTime
    /\ mark_call.position[1] # mark_call.position[MaxTime]
    /\ \E t \in 1..MaxTime : C11_Event(t, 1)
    /\ \E t \in 1..MaxTime :
           /\ mark_call.likelihood[t][1][1] # mark_call.likelihood[t][1][NBins]
           /\ mark_call.likelihood[t][0] # mark_call.likelihood[t][1]


\* ------------------------------------------------------------------ C13

\* the input of an optional modality in the arguments a (<<>> when None)
C13_Input(a, name) ==
    IF name = "lfp_power" THEN a.lfp_power
    ELSE IF name = "spikes" THEN a.spikes ELSE a.multiunit

\* the likelihood function fit left for an optional modality
C13_Model(name) ==
    IF name = "lfp_power" THEN _lfp_likelihood
    ELSE IF name = "spikes" THEN _spiking_likelihood ELSE _multiunit_likelihood

\* C13: a predict call that returns a result was given the input of every
\* optional modality named in use_likelihoods, and fit had fitted that
\* modality's model; with either missing the call ends in an error.
C13_MissingModalityIsError ==
    result.status = "ok" =>
        \A name \in result.args.use_likelihoods \cap Optional :
            /\ C13_Input(result.args, name) # <<>>
            /\ C13_Model(name) # "return_None"

\* a call over MaxTime steps that raised: spikes were requested and supplied
\* but never fitted, multiunit was requested and fitted but not supplied
C13_Witness ==
    /\ result.status = "error"
    /\ result.args.n_time = MaxTime
    /\ {"spikes", "multiunit"} \subseteq result.args.use_likelihoods
    /\ _spiking_likelihood = "return_None"
    /\ result.args.spikes # <<>>
    /\ _multiunit_likelihood = "multiunit_likelihood"
    /\ result.args.multiunit = <<>>

\* ------------------------------------------------------------------ C14

\* the interior mask the caller of fit asked for
C14_Interior ==
    IF fit_call.is_track_interior = <<>>
    THEN [b \in 1..Len(fit_call.place_bin_centers_) |-> TRUE]
    ELSE fit_call.is_track_interior

C14_InteriorRowSum(row) ==
    SumSeq([j \in 1..Len(row) |-> IF C14_Interior[j] THEN row[j] ELSE Zero])

\* C14: when fit has built the grid, the movement transition matrix it stores
\* has one row and one column per bin, is zero in every destination column of
\* a bin that is not interior, and each of its rows sums to 1 over the
\* interior bins, for each of the three movement policies.
C14_MovementRespectsInterior ==
    (fit_call.status = "done" /\ fit_call.place_bin_centers_ # <<>>) =>
        /\ Len(fit_call.movement_state_transition_)
               = Len(fit_call.place_bin_centers_)
        /\ \A i \in 1..Len(fit_call.movement_state_transition_) :
               /\ Len(fit_call.movement_state_transition_[i])
                      = Len(fit_call.place_bin_centers_)
               /\ \A j \in 1..Len(fit_call.place_bin_centers_) :
                      ~C14_Interior[j] =>
                          fit_call.movement_state_transition_[i][j] = Zero
               /\ C14_InteriorRowSum(fit_call.movement_state_transition_[i])
                      = One

\* ------------------------------------------------------------------ C15

\* the returned result is what a predict call with the same arguments returns
\* now, and its filtered posterior is the posterior of the same call without
\* the smoother
C15_Repeatable ==
    result.status = "ok" =>
        /\ predict(result.args) = result
        /\ predict([result.args EXCEPT !.use_smoother = FALSE]).posterior
               = result.filtered
        /\ predict([result.args EXCEPT !.use_smoother = TRUE]).filtered
               = result.filtered

\* C15: predict calls leave the fitted state of the detector as fit left it,
\* whatever their arguments and outcome, so that after a call the same
\* arguments give the same result and the same filtered posterior with the
\* smoother on or off.
C15_PredictChangesNoFittedState ==
    fitted => (detector = as_fitted /\ C15_Repeatable)

\* a smoothed result of a detector fitted with a caller's mask, whose
\* filtered posterior differs from the smoothed one
C15_Witness ==
    /\ result.status = "ok"
    /\ result.args.use_smoother
    /\ result.posterior # result.filtered
    /\ fit_is_track_interior # <<>>

\* ------------------------------------------------------------------ C16

C16_Extent == MaxPosition(fit_call.position) - MinPosition(fit_call.position)

\* C16: a detector constructed with both place_bin_size and n_place_bins set
\* is constructed and fitted with a warning, and the grid fit builds is the
\* one of place_bin_size: over a training extent that is not empty it has the
\* least number of bins of that width that cover the extent, whatever
\* n_place_bins is.
C16_PlaceBinSizeWins ==
    (fit_call.status = "done" /\ fit_call.place_bin_size # 0
         /\ fit_call.n_place_bins # 0) =>
        /\ fit_call.warned
        /\ C16_Extent > 0 =>
               /\ Len(fit_call.place_bin_centers_) >= 1
               /\ Len(fit_call.place_bin_centers_) * fit_call.place_bin_size
                      >= C16_Extent
               /\ (Len(fit_call.place_bin_centers_) - 1)
                      * fit_call.place_bin_size < C16_Extent

\* both options set, and the grid has another number of bins than n_place_bins
C16_Witness ==
    /\ fit_call.status = "done"
    /\ fit_call.place_bin_size # 0
    /\ fit_call.n_place_bins # 0
    /\ fit_call.warned
    /\ fit_call.place_bin_centers_ # <<>>
    /\ Len(fit_call.place_bin_centers_) # fit_call.n_place_bins

\* ------------------------------------------------------------------ C17

\* C17: after fit the detector holds an interior mask with one flag per bin,
\* all true when is_track_interior was omitted and the caller's mask when it
\* was supplied, and a predict call with spikes or multiunit selected that
\* returns has a fused likelihood of 0 at exactly the caller's non-interior
\* bins.
C17_FitKeepsInteriorMask ==
    fitted =>
        /\ DOMAIN is_track_interior_ = Bins
        /\ is_track_interior_ = FitMask
        /\ (result.status = "ok"
                /\ result.args.use_likelihoods
                       \cap {"spikes", "multiunit"} # {}) =>
               \A t \in 1..result.args.n_time : \A s \in States :
                   \A b \in Bins :
                       ~FitMask[b] => At(result.likelihood[t], s, b) = Zero

\* ------------------------------------------------------------------ C19

\* C19: a predict call that returns a result was given only modality names
\* among speed, lfp_power, spikes and multiunit.
C19_UnknownNameRejected ==
    result.status = "ok" => result.args.use_likelihoods \subseteq Names

\* ------------------------------------------------------------------ C18

\* C18: with the empirical movement policy the time points fit classifies as
\* moving are those with speed[t] > speed_threshold, and the stored matrix is
\* the one built from those time points, for every configured speed_threshold.
C18_EmpiricalUsesSpeedThreshold ==
    (fit_call.status = "done"
         /\ fit_call.movement_state_transition_type = "empirical") =>
        /\ \A t \in 1..Len(fit_call.speed) :
               fit_call.is_training[t]
                   <=> fit_call.speed[t] > fit_call.speed_threshold
        /\ fit_call.place_bin_centers_ # <<>> =>
               fit_call.movement_state_transition_
                   = empirical_movement(
                         fit_call.position, Len(fit_call.place_bin_centers_),
                         [t \in 1..Len(fit_call.speed) |->
                             fit_call.speed[t] > fit_call.speed_threshold])

\* ------------------------------------------------------------------ C20

\* C20: with place_bin_size None and n_place_bins = k, fit over a training
\* extent that is not empty builds a grid of exactly k bins, and the interior
\* mask and the movement transition it stores have k entries per axis.
C20_BinCountIsHonoured ==
    (fit_call.status = "done" /\ fit_call.place_bin_size = 0
         /\ fit_call.n_place_bins # 0
         /\ MaxPosition(fit_call.position)
                # MinPosition(fit_call.position)) =>
        /\ Len(fit_call.place_bin_centers_) = fit_call.n_place_bins
        /\ fit_call.is_track_interior = <<>> =>
               Len(fit_call.is_track_interior_) = fit_call.n_place_bins
        /\ Len(fit_call.movement_state_transition_) = fit_call.n_place_bins
        /\ \A i \in 1..Len(fit_call.movement_state_transition_) :
               Len(fit_call.movement_state_transition_[i])
                   = fit_call.n_place_bins

=============================================================================
